---- MODULE Spec2Model ----
(***************************************************************************)
(* MyArc<T>: an atomically reference-counted shared pointer (src/lib.rs).  *)
(*                                                                         *)
(* The heap is a set of ArcInner blocks (rc, data); a MyArc handle is a    *)
(* slot holding a pointer to one block.  Threads run the methods of MyArc  *)
(* one atomic access at a time: clone is fetch_add, then the threshold     *)
(* test; drop is fetch_sub with its test, then the fence, then the         *)
(* deallocation.  The borrow rules of the language are part of the model:  *)
(* a method taking &self needs the handle not to be exclusively borrowed,  *)
(* a method taking &mut self (deref_mut, drop) or self (mem::forget) needs *)
(* the handle to be used by nobody else.                                   *)
(***************************************************************************)
EXTENDS Integers, FiniteSets, Sequences, TLC

\* ------------------------------------------------------------- bounds
\* threads that call the methods freely; worker threads of the scripted scenario
NumThreads == 3
\* handles new and clone can return in one run
MaxHandles == 4
\* ArcInner blocks new can allocate in one run
MaxBlocks == 1
\* payload values are 0..MaxVal
MaxVal == 1
\* width of usize in bits
W == 3

Threads == 1..NumThreads
\* the workers of the scripted scenarios and their main thread
Workers == Threads
Main == NumThreads + 1
Procs == Threads \cup {Main}
Handles == 1..MaxHandles
Blocks == 1..MaxBlocks
Values == 0..MaxVal

RECURSIVE Pow2(_)
Pow2(n) == IF n = 0 THEN 1 ELSE 2 * Pow2(n - 1)

\* usize arithmetic is modulo 2^W
Modulus == Pow2(W)
\* isize::MAX as usize
ISIZE_MAX == Pow2(W - 1) - 1

VARIABLES
    alloc,    \* alloc[b]: "none" (never allocated), "live" (Box allocated), "freed"
    rc,       \* rc[b]: ArcInner.rc, an AtomicUsize
    data,     \* data[b]: ArcInner.data
    written,  \* written[b]: the value given to new or last assigned through a &mut T
    frees,    \* frees[b]: how many times ArcInner::drop ran and the Box was freed
    lastObs,  \* lastObs[b]: how many fetch_sub calls returned 1
    hst,      \* hst[h]: "unused", "live", "dropping", "dropped", "forgotten"
    ptr,      \* ptr[h]: MyArc.ptr, the block the handle points at
    pc,       \* pc[t]: where thread t is inside a method
    cur,      \* cur[t]: the handle (self) of the method thread t is in
    old_rc,   \* old_rc[t]: the value the thread's atomic access returned
    seen,     \* seen[t]: the payload value the thread last read through its reference
    aborted,  \* "no", "alloc" (allocation failure), "overflow" (process::abort in clone)
    script,   \* script[t]: the position of thread t in a scripted scenario
    caps      \* the marker traits of the payload type T: a subset of {"Send", "Sync"}

core == <<alloc, rc, data, written, frees, lastObs, hst, ptr, pc, cur, old_rc, seen, aborted>>
\* the marker traits a payload type can have; the threads of the specifications
\* that share handles freely presuppose a payload type with both
MarkerTraits == {"Send", "Sync"}

\* a handle type that can be sent as soon as the payload can be sent
MyArcSend_sendOnly(c) == "Send" \in c
\* unsafe impl<T: Send + Sync> Send for MyArc<T>
MyArcSend(c) == "Send" \in c /\ "Sync" \in c
\* unsafe impl<T: Send + Sync> Sync for MyArc<T>
MyArcSync(c) == "Send" \in c /\ "Sync" \in c

\* the scenario's position and the payload type, which no method changes
scen == <<script, caps>>
vars == <<alloc, rc, data, written, frees, lastObs, hst, ptr, pc, cur, old_rc, seen, aborted, script, caps>>

\* ------------------------------------------------------------- helpers

Min(S) == CHOOSE x \in S : \A y \in S : x <= y

\* a clone that forgets the increment
FetchAdd_none(c) == c

\* a clone that adds 2
FetchAdd_two(c) == (c + 2) % Modulus

\* AtomicUsize::fetch_add(1): the new stored value (wrapping)
FetchAdd(c) == (c + 1) % Modulus

\* a drop that increments where it should decrement
FetchSub_add(c) == (c + 1) % Modulus

\* fetch_sub(2, Release): each drop gives up two owners
FetchSub_two(c) == (c + Modulus - 2) % Modulus
\* AtomicUsize::fetch_sub(1): the new stored value (wrapping)
FetchSub(c) == (c + Modulus - 1) % Modulus

\* a threshold at usize::MAX instead of isize::MAX
OverThreshold_usizeMax(old) == old >= Modulus - 1

\* a threshold test that is off by one
OverThreshold_gt(old) == old > ISIZE_MAX

\* clone: if old_rc >= isize::MAX as usize { abort }
OverThreshold(old) == old >= ISIZE_MAX

\* a drop that frees whatever the count was
IsLastOwner_always(old) == TRUE
\* a drop whose test is inverted
IsLastOwner_inverted(old) == old # 1
\* a drop that takes fetch_sub's result for the new value
IsLastOwner_newValue(old) == old = 2

\* drop: if fetch_sub(..) != 1 { return }
IsLastOwner(old) == old = 1

\* the handle a clone or new is about to return
UnusedHandles == {h \in Handles : hst[h] = "unused"}
FreshHandle == Min(UnusedHandles)
UnusedBlocks == {b \in Blocks : alloc[b] = "none"}
FreshBlock == Min(UnusedBlocks)

\* a handle that new or clone returned and whose drop has not started
Live(h) == hst[h] \in {"live", "forgotten"}
LiveHandles(b) == {h \in Handles : Live(h) /\ ptr[h] = b}

\* threads inside a method of handle h
Users(h) == {t \in Procs : cur[t] = h}
ExclusiveUsers(h) == {t \in Users(h) : pc[t] \in {"deref_mut", "drop_fence", "drop_free"}}

\* &self can be taken: the handle is owned and nobody holds &mut to it
CanBorrow(h) == hst[h] = "live" /\ ExclusiveUsers(h) = {}
\* &mut self or self can be taken: the handle is owned and nobody borrows it
CanBorrowMut(h) == hst[h] = "live" /\ Users(h) = {}

Idle(t) == aborted = "no" /\ pc[t] = "idle"

\* threads holding a reference to the payload of block b
RefHolders(b) == {t \in Procs : pc[t] \in {"deref", "deref_mut"} /\ ptr[cur[t]] = b}
MutRefHolders(b) == {t \in Procs : pc[t] = "deref_mut" /\ ptr[cur[t]] = b}

\* what an atomic load of rc[b] can return: the stored value, or anything when the
\* block has been freed (a read of freed memory)
Load(b) == IF alloc[b] = "live" THEN {rc[b]} ELSE 0..(Modulus - 1)

\* clones that have incremented and not yet returned: each will need a slot
ClonesInFlight == {t \in Procs : pc[t] = "clone"}

\* the handle slots are bounded: a call that returns a new handle starts only when
\* a slot is left for it (a clone that is going to abort returns none)
HasSlot(b) ==
    \/ Cardinality(UnusedHandles) > Cardinality(ClonesInFlight)
    \/ (b \in Blocks /\ OverThreshold(rc[b]))

CoreInit ==
    /\ alloc = [b \in Blocks |-> "none"]
    /\ rc = [b \in Blocks |-> 0]
    /\ data = [b \in Blocks |-> 0]
    /\ written = [b \in Blocks |-> 0]
    /\ frees = [b \in Blocks |-> 0]
    /\ lastObs = [b \in Blocks |-> 0]
    /\ hst = [h \in Handles |-> "unused"]
    /\ ptr = [h \in Handles |-> 0]
    /\ pc = [t \in Procs |-> "idle"]
    /\ cur = [t \in Procs |-> 0]
    /\ old_rc = [t \in Procs |-> 0]
    /\ seen = [t \in Procs |-> 0]
    /\ aborted = "no"

Init ==
    /\ CoreInit
    /\ script = [t \in Procs |-> [ph |-> "free", h |-> 0, n |-> 0]]
    /\ caps = MarkerTraits

\* ------------------------------------------------------------- MyArc::new

\* MyArc::new(data): Box::new(ArcInner { rc: 1, data }), the handle points at it
new(t, v) ==
    /\ Idle(t)
    /\ UnusedBlocks # {}
    /\ HasSlot(0)
    /\ alloc' = [alloc EXCEPT ![FreshBlock] = "live"]
    /\ rc' = [rc EXCEPT ![FreshBlock] = 1]
    /\ data' = [data EXCEPT ![FreshBlock] = v]
    /\ written' = [written EXCEPT ![FreshBlock] = v]
    /\ hst' = [hst EXCEPT ![FreshHandle] = "live"]
    /\ ptr' = [ptr EXCEPT ![FreshHandle] = FreshBlock]
    /\ UNCHANGED <<frees, lastObs, pc, cur, old_rc, seen, aborted>>

\* Box::new cannot allocate: the allocation error handler aborts the process
new_alloc_fail(t) ==
    /\ Idle(t)
    /\ UnusedBlocks # {}
    /\ aborted' = "alloc"
    /\ UNCHANGED <<alloc, rc, data, written, frees, lastObs, hst, ptr, pc, cur, old_rc, seen>>

\* ------------------------------------------------------------- MyArc::count

\* a count that leaves out the handle it is called on
count_others(t, h) ==
    /\ Idle(t)
    /\ CanBorrow(h)
    /\ \E c \in Load(ptr[h]) : old_rc' = [old_rc EXCEPT ![t] = (c + Modulus - 1) % Modulus]
    /\ pc' = [pc EXCEPT ![t] = "count_ret"]
    /\ cur' = [cur EXCEPT ![t] = h]
    /\ UNCHANGED <<alloc, rc, data, written, frees, lastObs, hst, ptr, seen, aborted>>

\* count(&self): rc.load(Acquire)
count(t, h) ==
    /\ Idle(t)
    /\ CanBorrow(h)
    /\ \E c \in Load(ptr[h]) : old_rc' = [old_rc EXCEPT ![t] = c]
    /\ pc' = [pc EXCEPT ![t] = "count_ret"]
    /\ cur' = [cur EXCEPT ![t] = h]
    /\ UNCHANGED <<alloc, rc, data, written, frees, lastObs, hst, ptr, seen, aborted>>

\* the caller has taken the value count returned
count_return(t) ==
    /\ aborted = "no"
    /\ pc[t] = "count_ret"
    /\ pc' = [pc EXCEPT ![t] = "idle"]
    /\ cur' = [cur EXCEPT ![t] = 0]
    /\ old_rc' = [old_rc EXCEPT ![t] = 0]
    /\ UNCHANGED <<alloc, rc, data, written, frees, lastObs, hst, ptr, seen, aborted>>

\* ------------------------------------------------------------- Deref / DerefMut

\* deref(&self) -> &T: a shared reference to the payload
deref(t, h) ==
    /\ Idle(t)
    /\ CanBorrow(h)
    /\ pc' = [pc EXCEPT ![t] = "deref"]
    /\ cur' = [cur EXCEPT ![t] = h]
    /\ UNCHANGED <<alloc, rc, data, written, frees, lastObs, hst, ptr, old_rc, seen, aborted>>

\* a deref_mut that hands out the mutable reference to a sole owner only
deref_mut_exclusive(t, h) ==
    /\ Idle(t)
    /\ CanBorrowMut(h)
    /\ rc[ptr[h]] = 1
    /\ pc' = [pc EXCEPT ![t] = "deref_mut"]
    /\ cur' = [cur EXCEPT ![t] = h]
    /\ UNCHANGED <<alloc, rc, data, written, frees, lastObs, hst, ptr, old_rc, seen, aborted>>

\* deref_mut(&mut self) -> &mut T: a mutable reference, whatever rc is
deref_mut(t, h) ==
    /\ Idle(t)
    /\ CanBorrowMut(h)
    /\ pc' = [pc EXCEPT ![t] = "deref_mut"]
    /\ cur' = [cur EXCEPT ![t] = h]
    /\ UNCHANGED <<alloc, rc, data, written, frees, lastObs, hst, ptr, old_rc, seen, aborted>>

\* a read through the reference (*a): the payload, or anything when another thread
\* holds a mutable reference to it (a data race) or the block has been freed
read_ref(t) ==
    /\ aborted = "no"
    /\ pc[t] \in {"deref", "deref_mut"}
    /\ LET b == ptr[cur[t]] IN
        \E v \in Values :
            /\ (alloc[b] = "live" /\ MutRefHolders(b) \ {t} = {}) => v = data[b]
            /\ seen' = [seen EXCEPT ![t] = v]
    /\ UNCHANGED <<alloc, rc, data, written, frees, lastObs, hst, ptr, pc, cur, old_rc, aborted>>

\* a write through the mutable reference (*a = v): v is stored, or anything when
\* another thread holds a reference to the same payload (a data race)
write_ref(t, v) ==
    /\ aborted = "no"
    /\ pc[t] = "deref_mut"
    /\ LET b == ptr[cur[t]] IN
        \E w \in Values :
            /\ (alloc[b] = "live" /\ RefHolders(b) \ {t} = {}) => w = v
            /\ data' = [data EXCEPT ![b] = w]
            /\ written' = [written EXCEPT ![b] = v]
    /\ UNCHANGED <<alloc, rc, frees, lastObs, hst, ptr, pc, cur, old_rc, seen, aborted>>

\* the reference goes out of scope
end_ref(t) ==
    /\ aborted = "no"
    /\ pc[t] \in {"deref", "deref_mut"}
    /\ pc' = [pc EXCEPT ![t] = "idle"]
    /\ cur' = [cur EXCEPT ![t] = 0]
    /\ seen' = [seen EXCEPT ![t] = 0]
    /\ UNCHANGED <<alloc, rc, data, written, frees, lastObs, hst, ptr, old_rc, aborted>>

\* ------------------------------------------------------------- Clone

\* clone(&self), first half: old_rc = rc.fetch_add(1, Relaxed)
clone_fetch_add(t, h) ==
    /\ Idle(t)
    /\ CanBorrow(h)
    /\ HasSlot(ptr[h])
    /\ \E c \in Load(ptr[h]) :
        /\ old_rc' = [old_rc EXCEPT ![t] = c]
        /\ rc' = [rc EXCEPT ![ptr[h]] = FetchAdd(c)]
    /\ pc' = [pc EXCEPT ![t] = "clone"]
    /\ cur' = [cur EXCEPT ![t] = h]
    /\ UNCHANGED <<alloc, data, written, frees, lastObs, hst, ptr, seen, aborted>>

\* clone, second half: old_rc >= isize::MAX, std::process::abort()
clone_abort(t) ==
    /\ aborted = "no"
    /\ pc[t] = "clone"
    /\ OverThreshold(old_rc[t])
    /\ aborted' = "overflow"
    /\ UNCHANGED <<alloc, rc, data, written, frees, lastObs, hst, ptr, pc, cur, old_rc, seen>>

\* a clone that returns only when no other clone is in flight (it waits for them)
clone_return_wait(t) ==
    /\ aborted = "no"
    /\ pc[t] = "clone"
    /\ ClonesInFlight = {t}
    /\ ~OverThreshold(old_rc[t])
    /\ hst' = [hst EXCEPT ![FreshHandle] = "live"]
    /\ ptr' = [ptr EXCEPT ![FreshHandle] = ptr[cur[t]]]
    /\ pc' = [pc EXCEPT ![t] = "idle"]
    /\ cur' = [cur EXCEPT ![t] = 0]
    /\ old_rc' = [old_rc EXCEPT ![t] = 0]
    /\ UNCHANGED <<alloc, rc, data, written, frees, lastObs, seen, aborted>>

\* clone, second half: below the threshold, Self { ptr: self.ptr } is returned
clone_return(t) ==
    /\ aborted = "no"
    /\ pc[t] = "clone"
    /\ ~OverThreshold(old_rc[t])
    /\ hst' = [hst EXCEPT ![FreshHandle] = "live"]
    /\ ptr' = [ptr EXCEPT ![FreshHandle] = ptr[cur[t]]]
    /\ pc' = [pc EXCEPT ![t] = "idle"]
    /\ cur' = [cur EXCEPT ![t] = 0]
    /\ old_rc' = [old_rc EXCEPT ![t] = 0]
    /\ UNCHANGED <<alloc, rc, data, written, frees, lastObs, seen, aborted>>

\* ------------------------------------------------------------- Drop

\* a drop whose last owner frees the block without the Acquire fence
drop_fetch_sub_nofence(t, h) ==
    /\ Idle(t)
    /\ CanBorrowMut(h)
    /\ \E c \in Load(ptr[h]) :
        /\ rc' = [rc EXCEPT ![ptr[h]] = FetchSub(c)]
        /\ lastObs' = [lastObs EXCEPT ![ptr[h]] = IF c = 1 THEN @ + 1 ELSE @]
        /\ IF IsLastOwner(c)
           THEN /\ hst' = [hst EXCEPT ![h] = "dropping"]
                /\ pc' = [pc EXCEPT ![t] = "drop_free"]
                /\ cur' = [cur EXCEPT ![t] = h]
                /\ old_rc' = [old_rc EXCEPT ![t] = c]
           ELSE /\ hst' = [hst EXCEPT ![h] = "dropped"]
                /\ UNCHANGED <<pc, cur, old_rc>>
    /\ UNCHANGED <<alloc, data, written, frees, ptr, seen, aborted>>

\* drop(&mut self), first half: rc.fetch_sub(1, Release) and its test; when the
\* value was not 1 the drop returns here
drop_fetch_sub(t, h) ==
    /\ Idle(t)
    /\ CanBorrowMut(h)
    /\ \E c \in Load(ptr[h]) :
        /\ rc' = [rc EXCEPT ![ptr[h]] = FetchSub(c)]
        /\ lastObs' = [lastObs EXCEPT ![ptr[h]] = IF c = 1 THEN @ + 1 ELSE @]
        /\ IF IsLastOwner(c)
           THEN /\ hst' = [hst EXCEPT ![h] = "dropping"]
                /\ pc' = [pc EXCEPT ![t] = "drop_fence"]
                /\ cur' = [cur EXCEPT ![t] = h]
                /\ old_rc' = [old_rc EXCEPT ![t] = c]
           ELSE /\ hst' = [hst EXCEPT ![h] = "dropped"]
                /\ UNCHANGED <<pc, cur, old_rc>>
    /\ UNCHANGED <<alloc, data, written, frees, ptr, seen, aborted>>

\* drop, the last owner: atomic::fence(Acquire)
drop_fence(t) ==
    /\ aborted = "no"
    /\ pc[t] = "drop_fence"
    /\ pc' = [pc EXCEPT ![t] = "drop_free"]
    /\ UNCHANGED <<alloc, rc, data, written, frees, lastObs, hst, ptr, cur, old_rc, seen, aborted>>

\* drop, the last owner: Box::from_raw(ptr) is dropped, which runs ArcInner::drop
\* and the payload's teardown and frees the block
drop_free(t) ==
    /\ aborted = "no"
    /\ pc[t] = "drop_free"
    /\ alloc' = [alloc EXCEPT ![ptr[cur[t]]] = "freed"]
    /\ frees' = [frees EXCEPT ![ptr[cur[t]]] = @ + 1]
    /\ hst' = [hst EXCEPT ![cur[t]] = "dropped"]
    /\ pc' = [pc EXCEPT ![t] = "idle"]
    /\ cur' = [cur EXCEPT ![t] = 0]
    /\ old_rc' = [old_rc EXCEPT ![t] = 0]
    /\ UNCHANGED <<rc, data, written, lastObs, ptr, seen, aborted>>

\* std::mem::forget(handle): the handle is gone and its destructor never runs
forget(t, h) ==
    /\ Idle(t)
    /\ CanBorrowMut(h)
    /\ hst' = [hst EXCEPT ![h] = "forgotten"]
    /\ UNCHANGED <<alloc, rc, data, written, frees, lastObs, ptr, pc, cur, old_rc, seen, aborted>>

\* ------------------------------------------------------------- any threads, any calls

New == \E t \in Threads, v \in Values : new(t, v) /\ UNCHANGED scen
NewAllocFail == \E t \in Threads : new_alloc_fail(t) /\ UNCHANGED scen
Count == \E t \in Threads, h \in Handles : count(t, h) /\ UNCHANGED scen
CountReturn == \E t \in Threads : count_return(t) /\ UNCHANGED scen
Deref == \E t \in Threads, h \in Handles : deref(t, h) /\ UNCHANGED scen
DerefMut == \E t \in Threads, h \in Handles : deref_mut(t, h) /\ UNCHANGED scen
ReadRef == \E t \in Threads : read_ref(t) /\ UNCHANGED scen
WriteRef == \E t \in Threads, v \in Values : write_ref(t, v) /\ UNCHANGED scen
EndRef == \E t \in Threads : end_ref(t) /\ UNCHANGED scen
CloneFetchAdd == \E t \in Threads, h \in Handles : clone_fetch_add(t, h) /\ UNCHANGED scen
CloneAbort == \E t \in Threads : clone_abort(t) /\ UNCHANGED scen
CloneReturn == \E t \in Threads : clone_return(t) /\ UNCHANGED scen
DropFetchSub == \E t \in Threads, h \in Handles : drop_fetch_sub(t, h) /\ UNCHANGED scen
DropFence == \E t \in Threads : drop_fence(t) /\ UNCHANGED scen
DropFree == \E t \in Threads : drop_free(t) /\ UNCHANGED scen
Forget == \E t \in Threads, h \in Handles : forget(t, h) /\ UNCHANGED scen

Next ==
    \/ New
    \/ NewAllocFail
    \/ Count
    \/ CountReturn
    \/ Deref
    \/ DerefMut
    \/ ReadRef
    \/ WriteRef
    \/ EndRef
    \/ CloneFetchAdd
    \/ CloneAbort
    \/ CloneReturn
    \/ DropFetchSub
    \/ DropFence
    \/ DropFree
    \/ Forget

Spec == Init /\ [][Next]_vars

\* the counting protocol alone: the calls that create, copy and destroy handles
NextCount ==
    \/ New
    \/ NewAllocFail
    \/ CloneFetchAdd
    \/ CloneAbort
    \/ CloneReturn
    \/ DropFetchSub
    \/ DropFence
    \/ DropFree
    \/ Forget

SpecCount == Init /\ [][NextCount]_vars

\* the counting protocol and count(), each thread scheduled again and again: a
\* thread inside clone, drop or count takes its next step when it can (OS threads;
\* the methods hold no lock and have no loop)
Continue(t) ==
    /\ \/ count_return(t)
       \/ clone_abort(t)
       \/ clone_return(t)
       \/ drop_fence(t)
       \/ drop_free(t)
    /\ UNCHANGED scen

NextProgress ==
    \/ New
    \/ NewAllocFail
    \/ Count
    \/ CountReturn
    \/ CloneFetchAdd
    \/ CloneAbort
    \/ CloneReturn
    \/ DropFetchSub
    \/ DropFence
    \/ DropFree
    \/ Forget

SpecProgress ==
    /\ Init
    /\ [][NextProgress]_vars
    /\ \A t \in Threads : WF_vars(Continue(t))

\* ------------------------------------------------------------- scripted: K workers
\* The main thread makes the original handle and spawns K workers; each worker
\* clones the original, reads the payload through its clone and drops the clone;
\* the main thread joins the workers and drops the original.
\*   script[Main]: ph "start" -> "join" -> ("dropping" ->) "done", h the original,
\*                 n the number K of workers
\*   script[w]:    ph "start" -> "cloning" -> "work" -> "reading" -> "drop"
\*                 -> ("dropping" ->) "done", h the worker's clone; "off": not spawned

SetPh(p, ph) == script' = [script EXCEPT ![p].ph = ph] /\ UNCHANGED caps
SetPhH(p, ph, h) == script' = [script EXCEPT ![p].ph = ph, ![p].h = h] /\ UNCHANGED caps

Spawned == {w \in Workers : script[w].ph # "off"}

InitThreads ==
    /\ CoreInit
    /\ \E K \in 1..NumThreads :
        script = [p \in Procs |->
                    IF p = Main THEN [ph |-> "start", h |-> 0, n |-> K]
                    ELSE IF p \in 1..K THEN [ph |-> "start", h |-> 0, n |-> 0]
                    ELSE [ph |-> "off", h |-> 0, n |-> 0]]
    /\ caps = MarkerTraits

T_New ==
    /\ script[Main].ph = "start"
    /\ \E v \in Values : new(Main, v)
    /\ SetPhH(Main, "join", FreshHandle)

T_NewAllocFail ==
    /\ script[Main].ph = "start"
    /\ new_alloc_fail(Main)
    /\ UNCHANGED scen

T_Clone ==
    \E w \in Workers :
        /\ script[w].ph = "start"
        /\ script[Main].ph = "join"
        /\ clone_fetch_add(w, script[Main].h)
        /\ SetPh(w, "cloning")

T_CloneAbort ==
    \E w \in Workers :
        /\ script[w].ph = "cloning"
        /\ clone_abort(w)
        /\ UNCHANGED scen

T_CloneReturn ==
    \E w \in Workers :
        /\ script[w].ph = "cloning"
        /\ clone_return(w)
        /\ SetPhH(w, "work", FreshHandle)

T_Deref ==
    \E w \in Workers :
        /\ script[w].ph = "work"
        /\ deref(w, script[w].h)
        /\ SetPh(w, "reading")

T_ReadRef ==
    \E w \in Workers :
        /\ script[w].ph = "reading"
        /\ read_ref(w)
        /\ UNCHANGED scen

T_EndRef ==
    \E w \in Workers :
        /\ script[w].ph = "reading"
        /\ end_ref(w)
        /\ SetPh(w, "drop")

\* a worker drops its clone; the main thread drops the original after the join
T_Drop ==
    \E p \in Workers \cup {Main} :
        /\ IF p = Main
           THEN script[p].ph = "join" /\ \A w \in Spawned : script[w].ph = "done"
           ELSE script[p].ph = "drop"
        /\ drop_fetch_sub(p, script[p].h)
        /\ SetPh(p, IF pc'[p] = "idle" THEN "done" ELSE "dropping")

T_DropFence ==
    \E p \in Workers \cup {Main} :
        /\ script[p].ph = "dropping"
        /\ drop_fence(p)
        /\ UNCHANGED scen

T_DropFree ==
    \E p \in Workers \cup {Main} :
        /\ script[p].ph = "dropping"
        /\ drop_free(p)
        /\ SetPh(p, "done")

NextThreads ==
    \/ T_New
    \/ T_NewAllocFail
    \/ T_Clone
    \/ T_CloneAbort
    \/ T_CloneReturn
    \/ T_Deref
    \/ T_ReadRef
    \/ T_EndRef
    \/ T_Drop
    \/ T_DropFence
    \/ T_DropFree

SpecThreads == InitThreads /\ [][NextThreads]_vars

\* ------------------------------------------------------------- scripted: sequential
\* One thread: new, then clones, then drops, calling count() in between.
\*   script[Main]: ph "start" -> "clones" -> "drops", n the count the caller expects:
\*   1 after new, one more after each clone that returned, one less after each drop

InitSeq ==
    /\ CoreInit
    /\ script = [p \in Procs |-> [ph |-> IF p = Main THEN "start" ELSE "off", h |-> 0, n |-> 0]]
    /\ caps = MarkerTraits

SetN(n) == script' = [script EXCEPT ![Main].n = n] /\ UNCHANGED caps

S_New ==
    /\ script[Main].ph = "start"
    /\ \E v \in Values : new(Main, v)
    /\ script' = [script EXCEPT ![Main].ph = "clones", ![Main].n = 1]
    /\ UNCHANGED caps

S_NewAllocFail ==
    /\ script[Main].ph = "start"
    /\ new_alloc_fail(Main)
    /\ UNCHANGED scen

S_Count ==
    /\ script[Main].ph \in {"clones", "drops"}
    /\ \E h \in Handles : count(Main, h)
    /\ UNCHANGED scen

S_CountReturn ==
    /\ count_return(Main)
    /\ UNCHANGED scen

S_Clone ==
    /\ script[Main].ph = "clones"
    /\ \E h \in Handles : clone_fetch_add(Main, h)
    /\ UNCHANGED scen

S_CloneAbort ==
    /\ clone_abort(Main)
    /\ UNCHANGED scen

S_CloneReturn ==
    /\ clone_return(Main)
    /\ SetN(script[Main].n + 1)

\* the clones are over, the drops begin
S_StartDrops ==
    /\ script[Main].ph = "clones"
    /\ Idle(Main)
    /\ UNCHANGED core
    /\ SetPh(Main, "drops")

S_Drop ==
    /\ script[Main].ph = "drops"
    /\ \E h \in Handles : drop_fetch_sub(Main, h)
    /\ SetN(script[Main].n - 1)

S_DropFence ==
    /\ drop_fence(Main)
    /\ UNCHANGED scen

S_DropFree ==
    /\ drop_free(Main)
    /\ UNCHANGED scen

NextSeq ==
    \/ S_New
    \/ S_NewAllocFail
    \/ S_Count
    \/ S_CountReturn
    \/ S_Clone
    \/ S_CloneAbort
    \/ S_CloneReturn
    \/ S_StartDrops
    \/ S_Drop
    \/ S_DropFence
    \/ S_DropFree

SpecSeq == InitSeq /\ [][NextSeq]_vars

\* ------------------------------------------------------------- scripted: any payload type
\* The payload type T has any of the marker traits. The main thread makes the
\* original; a worker gets a handle of its own either by cloning the original
\* through a shared reference (which needs MyArc<T>: Sync) or by receiving a clone
\* the main thread made and moves to it (which needs MyArc<T>: Send).
\*   script[Main]: ph "start" -> "join" -> "cloning" -> "give" -> "join" ...,
\*                 h the original, n the clone about to be given away
\*   script[w]:    as in the scenario of K workers, h the worker's handle

InitCaps ==
    /\ CoreInit
    /\ script = [p \in Procs |-> [ph |-> "start", h |-> 0, n |-> 0]]
    /\ caps \in SUBSET MarkerTraits

\* a worker clones the original through &MyArc<T>
P_Share == MyArcSync(caps) /\ T_Clone

P_MainClone ==
    /\ script[Main].ph = "join"
    /\ \E w \in Workers : script[w].ph = "start"
    /\ clone_fetch_add(Main, script[Main].h)
    /\ SetPh(Main, "cloning")

P_MainCloneAbort ==
    /\ script[Main].ph = "cloning"
    /\ clone_abort(Main)
    /\ UNCHANGED scen

P_MainCloneReturn ==
    /\ script[Main].ph = "cloning"
    /\ clone_return(Main)
    /\ script' = [script EXCEPT ![Main].ph = "give", ![Main].n = FreshHandle]
    /\ UNCHANGED caps

\* the main thread moves its clone into the worker's closure
P_Send ==
    \E w \in Workers :
        /\ aborted = "no"
        /\ script[Main].ph = "give"
        /\ script[w].ph = "start"
        /\ MyArcSend(caps)
        /\ script' = [script EXCEPT ![Main].ph = "join", ![Main].n = 0,
                                    ![w].ph = "work", ![w].h = script[Main].n]
        /\ UNCHANGED <<core, caps>>

NextCaps ==
    \/ T_New
    \/ T_NewAllocFail
    \/ P_Share
    \/ T_CloneAbort
    \/ T_CloneReturn
    \/ P_MainClone
    \/ P_MainCloneAbort
    \/ P_MainCloneReturn
    \/ P_Send
    \/ T_Deref
    \/ T_ReadRef
    \/ T_EndRef
    \/ T_Drop
    \/ T_DropFence
    \/ T_DropFree

SpecCaps == InitCaps /\ [][NextCaps]_vars

\* ------------------------------------------------------------- properties

Dropped(b) == {h \in Handles : hst[h] = "dropped" /\ ptr[h] = b}
Forgotten(b) == {h \in Handles : hst[h] = "forgotten" /\ ptr[h] = b}
InDrop(t) == pc[t] \in {"drop_fence", "drop_free"}
InClone(t) == pc[t] = "clone"

\* C1, state part: a block is freed at most once, at most one fetch_sub on it
\* returned 1, a freed block is one whose count went 1 -> 0, and a thread past the
\* test of drop is one whose fetch_sub returned 1.
C1_State ==
    /\ \A b \in Blocks :
        /\ frees[b] <= 1
        /\ lastObs[b] <= 1
        /\ frees[b] <= lastObs[b]
        /\ (alloc[b] = "freed") = (frees[b] = 1)
    /\ \A t \in Procs : InDrop(t) => old_rc[t] = 1

\* C1, step part: the only step that frees a block is the deallocation step of a
\* drop whose fetch_sub returned 1 on that block.
C1_Step ==
    \A b \in Blocks :
        frees'[b] # frees[b] =>
            \E t \in Procs :
                /\ pc[t] = "drop_free" /\ pc'[t] = "idle"
                /\ ptr[cur[t]] = b
                /\ old_rc[t] = 1
                /\ rc[b] = 0

\* C1: under every interleaving of clone and drop, each block is deallocated at most
\* once, only by the drop whose fetch_sub observed 1, and at most one drop observes 1.
C1_DeallocatedOnceByLastOwner == []C1_State /\ [][C1_Step]_vars

\* C1 witness: a block with several dropped handles has been freed
C1_Witness ==
    \E b \in Blocks : frees[b] = 1 /\ lastObs[b] = 1 /\ Cardinality(Dropped(b)) >= 2

\* C2: no live handle points at a freed block, and no thread inside count, deref,
\* deref_mut or clone works on a freed block.
C2_NoDanglingHandle ==
    /\ \A h \in Handles : Live(h) => alloc[ptr[h]] = "live"
    /\ \A t \in Procs :
        pc[t] \in {"count_ret", "deref", "deref_mut", "clone"} => alloc[ptr[cur[t]]] = "live"

\* C2 witness: a thread reads through a live handle of a block of which another
\* handle has been dropped
C2_Witness ==
    \E t \in Procs, b \in Blocks :
        /\ pc[t] = "deref" /\ ptr[cur[t]] = b /\ Live(cur[t])
        /\ Dropped(b) # {}

\* no clone and no drop is in flight on any thread
Quiescent == \A t \in Procs : ~InClone(t) /\ ~InDrop(t)

\* C3: at every quiescent point the stored count of each allocated block is the
\* number of live handles pointing at it.
C3_CountEqualsLiveHandles ==
    Quiescent => \A b \in Blocks : alloc[b] = "live" => rc[b] = Cardinality(LiveHandles(b))

\* C3 witness: a quiescent state after a clone and a drop, with two handles left
C3_Witness ==
    \E b \in Blocks :
        /\ Quiescent /\ alloc[b] = "live"
        /\ Cardinality(LiveHandles(b)) = 2 /\ Dropped(b) # {}

\* C8: whenever a live handle points at a block, also in the middle of clones and
\* drops of other threads, the count of the block is at least 1.
C8_CountPositiveWhileOwned ==
    \A b \in Blocks : LiveHandles(b) # {} => rc[b] >= 1

\* C8 witness: a clone is in flight on a block one handle of which has been dropped
C8_Witness ==
    \E t \in Procs, b \in Blocks :
        /\ InClone(t) /\ ptr[cur[t]] = b
        /\ Dropped(b) # {} /\ LiveHandles(b) # {}

\* C6, state part: a clone whose fetch_add returned a value at or over the threshold
\* can only abort: returning is not enabled for it and aborting is; and the process
\* is aborted for overflow only by such a clone.
C6_State ==
    /\ \A t \in Procs :
        (aborted = "no" /\ InClone(t) /\ old_rc[t] >= ISIZE_MAX) =>
            /\ ~ENABLED (clone_return(t) /\ UNCHANGED scen)
            /\ ENABLED (clone_abort(t) /\ UNCHANGED scen)
    /\ aborted = "overflow" => \E t \in Procs : InClone(t) /\ old_rc[t] >= ISIZE_MAX

\* C6, step part: a clone that leaves with a handle observed a count under the
\* threshold, a clone that observed more never leaves (it returns no handle), and
\* the stored count only ever goes down by one (it never wraps).
C6_Step ==
    /\ \A t \in Procs :
        /\ (InClone(t) /\ pc'[t] = "idle") => old_rc[t] < ISIZE_MAX
        /\ (InClone(t) /\ old_rc[t] >= ISIZE_MAX) =>
            (InClone(t)' /\ cur'[t] = cur[t] /\ old_rc'[t] = old_rc[t])
    /\ \A b \in Blocks : rc'[b] < rc[b] => rc'[b] = rc[b] - 1

\* C6: a clone that observes a pre-increment count >= isize::MAX aborts the process
\* and returns no handle, and the counter never wraps around.
C6_OverflowAborts == []C6_State /\ [][C6_Step]_vars

\* C6 witness: the process was aborted by a clone that observed the threshold
C6_Witness ==
    \E t \in Procs :
        /\ aborted = "overflow" /\ InClone(t)
        /\ old_rc[t] >= ISIZE_MAX /\ rc[ptr[cur[t]]] > ISIZE_MAX

\* C9: deref_mut is granted through every owned, unborrowed handle to every idle
\* thread, whatever the count of its block is.
C9_DerefMutUnconditional ==
    \A t \in Procs, h \in Handles :
        (Idle(t) /\ CanBorrowMut(h)) => ENABLED (deref_mut(t, h) /\ UNCHANGED scen)

\* C9 witness: the count is over 1 and two threads hold mutable references to the
\* same payload through different handles
C9_Witness ==
    \E t1, t2 \in Procs, b \in Blocks :
        /\ t1 # t2 /\ cur[t1] # cur[t2]
        /\ {t1, t2} \subseteq MutRefHolders(b)
        /\ rc[b] > 1

\* C10, state part: a block with a forgotten handle is allocated and was never freed
C10_State == \A b \in Blocks : Forgotten(b) # {} => (alloc[b] = "live" /\ frees[b] = 0)

\* C10, step part: a forgotten handle stays forgotten and its block stays allocated
C10_Step ==
    \A h \in Handles :
        hst[h] = "forgotten" => (hst'[h] = "forgotten" /\ alloc'[ptr[h]] = "live")

\* C10: a block one handle of which is never dropped (it was forgotten) is never
\* deallocated, however many other handles are dropped.
C10_LeakedHandleKeepsBlock == []C10_State /\ [][C10_Step]_vars

\* C10 witness: one handle was forgotten and every other handle of the block, two
\* at least, has been dropped
C10_Witness ==
    \E b \in Blocks :
        /\ Quiescent
        /\ Cardinality(Forgotten(b)) = 1 /\ LiveHandles(b) = Forgotten(b)
        /\ Cardinality(Dropped(b)) >= 2

\* every spawned worker has dropped its clone and the main thread the original
AllDone == script[Main].ph = "done" /\ \A w \in Spawned : script[w].ph = "done"

\* C4: when K workers have each cloned the original, worked and dropped their clone,
\* and the original has been dropped after them, the payload has been torn down
\* exactly once; and at no point before has it been torn down more than once.
C4_WorkersTearDownOnce ==
    \A b \in Blocks :
        /\ frees[b] <= 1
        /\ (AllDone /\ ptr[script[Main].h] = b) => (frees[b] = 1 /\ alloc[b] = "freed")

\* C4 witness: two workers or more and the main thread are done
C4_Witness ==
    /\ AllDone
    /\ Cardinality(Spawned) >= 2
    /\ frees[ptr[script[Main].h]] = 1

\* the handles new and clone have returned for block b
Created(b) == {h \in Handles : hst[h] # "unused" /\ ptr[h] = b}

\* C5 as stated: after N >= 1 clones followed by N drops the payload teardown has
\* run exactly once.
C5_TeardownAfterNDrops ==
    \A b \in Blocks :
        ( /\ script[Main].ph = "drops" /\ Idle(Main)
          /\ Cardinality(Created(b)) >= 2
          /\ Cardinality(Dropped(b)) = Cardinality(Created(b)) - 1 )
        => frees[b] = 1

\* C5 amended: after N clones, each of which returned, followed by drops, the payload
\* teardown runs at most once, it has run only when all the N + 1 handles have been
\* dropped, and it has run once the (N + 1)-th drop is over.
C5_TeardownAfterLastDrop ==
    \A b \in Blocks :
        /\ frees[b] <= 1
        /\ frees[b] = 1 => (script[Main].ph = "drops" /\ Dropped(b) = Created(b))
        /\ ( /\ script[Main].ph = "drops" /\ pc[Main] = "idle"
             /\ Created(b) # {} /\ Dropped(b) = Created(b) )
           => frees[b] = 1

\* C5 witness: two clones, three drops, and the teardown has run
C5_Witness ==
    \E b \in Blocks :
        /\ script[Main].ph = "drops" /\ Idle(Main)
        /\ Cardinality(Created(b)) = 3 /\ Dropped(b) = Created(b)
        /\ frees[b] = 1

\* C7: in sequential use count() returns, through whichever handle it is called, 1
\* after new, one more after each clone that returned and one less after each drop
\* of a handle that was not the last.
C7_CountSequential ==
    pc[Main] = "count_ret" => old_rc[Main] = script[Main].n

\* C7 witness: a = new, b = a.clone(), drop(a), and count(b) has returned 1
C7_Witness ==
    \E b \in Blocks :
        /\ pc[Main] = "count_ret" /\ old_rc[Main] = 1 /\ ptr[cur[Main]] = b
        /\ Cardinality(Created(b)) = 2 /\ Cardinality(Dropped(b)) = 1

\* thread t is inside clone, drop or count
InCall(t) == pc[t] \in {"clone", "drop_fence", "drop_free", "count_ret"}

\* C11, state part: a running thread inside clone, drop or count can take its next
\* step, whatever the other threads are doing.
C11_NonBlocking ==
    \A t \in Threads : (aborted = "no" /\ InCall(t)) => ENABLED Continue(t)

\* C11, step part: a call advances through at most three steps and never goes back
\* (count: load, return; clone: fetch_add, return; drop: fetch_sub, fence, free),
\* and a thread whose position in a call stays the same has not moved (no retry).
C11_Step ==
    \A t \in Procs :
        /\ pc'[t] # pc[t] =>
            <<pc[t], pc'[t]>> \in
                { <<"idle", "count_ret">>, <<"count_ret", "idle">>,
                  <<"idle", "clone">>, <<"clone", "idle">>,
                  <<"idle", "drop_fence">>, <<"drop_fence", "drop_free">>,
                  <<"drop_free", "idle">> }
        /\ (InCall(t) /\ pc'[t] = pc[t]) => (cur'[t] = cur[t] /\ old_rc'[t] = old_rc[t])

\* C11: clone, drop and count are lock-free: a call never waits for another thread,
\* takes a bounded number of steps of its own, and, its thread being scheduled,
\* ends (or the process aborts).
C11_LockFree ==
    /\ []C11_NonBlocking
    /\ [][C11_Step]_vars
    /\ \A t \in Threads : InCall(t) ~> (pc[t] = "idle" \/ aborted # "no")

\* C11 witness: two clones and a count are in flight at once on one block
C11_Witness ==
    \E t1, t2, t3 \in Threads :
        /\ t1 # t2 /\ aborted = "no"
        /\ pc[t1] = "clone" /\ pc[t2] = "clone" /\ pc[t3] = "count_ret"
        /\ ptr[cur[t1]] = ptr[cur[t2]] /\ ptr[cur[t2]] = ptr[cur[t3]]

\* C12: a thread other than the one that made the original holds or uses a handle
\* only when the payload type is both Send and Sync, and the handle type is Send
\* (Sync) only if the payload type is.
C12_CapabilityConditional ==
    /\ \A w \in Workers : (script[w].h # 0 \/ cur[w] # 0) => MarkerTraits \subseteq caps
    /\ MyArcSend(caps) => ("Send" \in caps /\ "Sync" \in caps)
    /\ MyArcSync(caps) => ("Send" \in caps /\ "Sync" \in caps)

\* C12 witness: one worker has received a handle from the main thread while
\* another clones the original through a shared reference
C12_Witness ==
    \E w1, w2 \in Workers :
        /\ script[w1].ph = "work" /\ script[w1].h # 0 /\ Live(script[w1].h)
        /\ script[Main].ph = "join" /\ script[w2].ph = "cloning"
        /\ cur[w2] = script[Main].h /\ rc[ptr[cur[w2]]] = 3

\* C13, step part: the last owner's drop runs fetch_sub, then the fence, then the
\* deallocation; when the block is freed every other handle of the block has been
\* dropped (its decrement is over) and no other thread is inside a method or
\* holds a reference through a handle of the block; a freed block's counter and
\* payload are not touched again.
C13_Step ==
    /\ \A t \in Procs :
        /\ (pc'[t] = "drop_fence" /\ pc[t] # "drop_fence") =>
              /\ pc[t] = "idle" /\ old_rc'[t] = 1
              /\ rc'[ptr[cur'[t]]] = FetchSub(rc[ptr[cur'[t]]])
              /\ alloc' = alloc
        /\ (pc'[t] = "drop_free" /\ pc[t] # "drop_free") =>
              (pc[t] = "drop_fence" /\ rc' = rc /\ alloc' = alloc)
    /\ \A b \in Blocks :
        /\ alloc'[b] # alloc[b] /\ alloc'[b] = "freed" =>
              \E t \in Procs :
                  /\ pc[t] = "drop_free" /\ ptr[cur[t]] = b
                  /\ \A h \in Created(b) \ {cur[t]} : hst[h] = "dropped"
                  /\ \A u \in Procs \ {t} : cur[u] = 0 \/ ptr[cur[u]] # b
        /\ alloc[b] = "freed" => (rc'[b] = rc[b] /\ data'[b] = data[b])

\* C13: in the drop that observes 1 the steps are release-decrement, acquire
\* fence, deallocation, in this order, and every payload access and every
\* decrement made by another thread through its own handle comes before the
\* deallocation.
C13_DeallocationLast ==
    /\ [](\A b \in Blocks : alloc[b] = "freed" =>
              \A t \in Procs : cur[t] = 0 \/ ptr[cur[t]] # b)
    /\ [][C13_Step]_vars

\* C13 witness: a last owner is past the fence and about to free a block whose
\* other handles, two of them, have been dropped
C13_Witness ==
    \E t \in Procs :
        /\ pc[t] = "drop_free" /\ aborted = "no"
        /\ Cardinality({h \in Created(ptr[cur[t]]) : hst[h] = "dropped"}) >= 2

\* C14: a drop whose fetch_sub observes a value other than 1 lowers the count of
\* its block by exactly 1 and changes nothing else: the block stays allocated, the
\* payload is unchanged, the thread goes on to no fence and no deallocation, and
\* every other handle is as it was.
C14_NonLastDropFrame ==
    [][\A h \in Handles :
        ( /\ hst[h] = "live" /\ hst'[h] \in {"dropping", "dropped"}
          /\ rc[ptr[h]] # 1 ) =>
            /\ rc' = [rc EXCEPT ![ptr[h]] = @ - 1]
            /\ hst' = [hst EXCEPT ![h] = "dropped"]
            /\ UNCHANGED <<alloc, data, written, frees, ptr, pc, cur, seen, aborted>>
            /\ alloc[ptr[h]] = "live"]_vars

\* C14 witness: one handle of a block has been dropped while two others are alive;
\* the block is allocated, never freed, and counts the two
C14_Witness ==
    \E h \in Handles :
        /\ hst[h] = "dropped" /\ alloc[ptr[h]] = "live" /\ frees[ptr[h]] = 0
        /\ rc[ptr[h]] = 2 /\ Cardinality(LiveHandles(ptr[h])) = 2
        /\ \A t \in Procs : pc[t] = "idle"

\* thread t reads the payload through its reference in this step
ReadStep(t) == pc[t] \in {"deref", "deref_mut"} /\ pc'[t] = pc[t] /\ seen'[t] # seen[t]

\* C15: the handle clone returns points at the block of the handle cloned, and a
\* read of the payload through any handle of a block returns the value given to
\* new or the value last written through deref_mut on any handle of the block.
C15_ReadsLastWritten ==
    [][/\ \A t \in Procs :
            (pc[t] = "clone" /\ pc'[t] = "idle") =>
                \E h \in Handles :
                    hst[h] = "unused" /\ hst'[h] = "live" /\ ptr'[h] = ptr[cur[t]]
       /\ \A t \in Procs : ReadStep(t) => seen'[t] = written[ptr[cur[t]]]
       /\ \A b \in Blocks : alloc'[b] = "live" => data'[b] = written'[b]]_vars

\* the shared state count() and a read of the payload must leave alone
C16_Frame == UNCHANGED <<alloc, rc, data, written, frees, lastObs, hst, ptr, aborted>>

\* C16, state part: count() and deref are enabled for every idle thread on every
\* handle it can borrow, and a thread inside them can always go on.
C16_State ==
    \A t \in Threads :
        /\ \A h \in Handles :
            (Idle(t) /\ CanBorrow(h)) =>
                /\ ENABLED (count(t, h) /\ UNCHANGED scen)
                /\ ENABLED (deref(t, h) /\ UNCHANGED scen)
        /\ (aborted = "no" /\ pc[t] = "count_ret") => ENABLED (count_return(t) /\ UNCHANGED scen)
        /\ (aborted = "no" /\ pc[t] = "deref") =>
                /\ ENABLED (read_ref(t) /\ UNCHANGED scen)
                /\ ENABLED (end_ref(t) /\ UNCHANGED scen)

\* C16, step part: the steps of count() and of a read through &T change neither a
\* count, nor a payload, nor an allocation, and abort nothing; the value count()
\* returns is the value the counter holds at the step of the load.
C16_Step ==
    \A t \in Procs :
        /\ (pc[t] = "idle" /\ pc'[t] = "count_ret") =>
                (C16_Frame /\ old_rc'[t] = rc[ptr[cur'[t]]])
        /\ (pc[t] = "count_ret" /\ pc'[t] = "idle") => C16_Frame
        /\ (pc[t] = "idle" /\ pc'[t] = "deref") => C16_Frame
        /\ (pc[t] = "deref" /\ ReadStep(t)) => C16_Frame
        /\ (pc[t] = "deref" /\ pc'[t] = "idle") => C16_Frame

\* C16: count() and read access through a live handle always succeed and leave the
\* count, the payload and the allocation unchanged; count() returns a value the
\* counter held at the instant of its load.
C16_CountAndReadTotal == []C16_State /\ [][C16_Step]_vars

\* C16 witness: a count() has loaded 2 from a live block of two handles while
\* another thread has read the payload through a shared reference
C16_Witness ==
    \E t1, t2 \in Threads :
        /\ pc[t1] = "count_ret" /\ old_rc[t1] = 2 /\ rc[ptr[cur[t1]]] = 2
        /\ pc[t2] = "deref" /\ ptr[cur[t2]] = ptr[cur[t1]] /\ cur[t2] # cur[t1]
        /\ seen[t2] = 1 /\ data[ptr[cur[t2]]] = 1 /\ alloc[ptr[cur[t2]]] = "live"

\* C17: the fetch_add of a clone never observes 0 as the value before the
\* increment, and a count that has gone down to 0 is never incremented again.
C17_NoResurrection ==
    /\ [](\A t \in Procs : pc[t] = "clone" => old_rc[t] # 0)
    /\ [][\A b \in Blocks : (alloc[b] # "none" /\ rc[b] = 0) => rc'[b] = 0]_vars

\* C17 witness: a block that had three handles, two of them made by clone, has
\* gone down to count 0 and has been freed
C17_Witness ==
    \E b \in Blocks :
        /\ rc[b] = 0 /\ alloc[b] = "freed"
        /\ Cardinality(Created(b)) = 3 /\ Dropped(b) = Created(b)

\* the clones in flight on block b: incremented, neither returned nor aborted
ClonesInFlightOn(b) == {t \in ClonesInFlight : ptr[cur[t]] = b}

\* C18: clone increments before it tests the threshold, so clones in flight can
\* take the stored count above isize::MAX; with fewer than 2^(W-1) clones in
\* flight the stored count of a live block is at most isize::MAX plus the clones
\* in flight on it, which is below 2^W, and no step wraps it: a step changes a
\* count by one at most.
C18_NoWrap ==
    /\ [](\A b \in Blocks :
            (alloc[b] = "live" /\ Cardinality(ClonesInFlight) < Pow2(W - 1)) =>
                /\ rc[b] <= ISIZE_MAX + Cardinality(ClonesInFlightOn(b))
                /\ ISIZE_MAX + Cardinality(ClonesInFlightOn(b)) < Modulus)
    /\ [][\A b \in Blocks :
            (alloc[b] = "live" /\ Cardinality(ClonesInFlight) < Pow2(W - 1)) =>
                rc'[b] \in {rc[b] - 1, rc[b], rc[b] + 1}]_vars

\* C18 witness: two clones in flight have taken the stored count to
\* isize::MAX + 2 and the process has not aborted yet
C18_Witness ==
    \E b \in Blocks :
        /\ alloc[b] = "live" /\ aborted = "no"
        /\ Cardinality(ClonesInFlightOn(b)) = 2
        /\ rc[b] = ISIZE_MAX + 2

====
